---- MODULE Spec2Model ----
(***************************************************************************)
(* A model of the circuit breaker of src/core.go, of the thresholds and    *)
(* the switch of the threshold file (kept in src/README.md, lines 351-429) *)
(* and of the sliding-window threshold of src/sliding_window.go.           *)
(*                                                                         *)
(* Time is a discrete monotonic clock `now`; every time.Now() and          *)
(* time.Since() of a handler reads it.  Several calls may observe the same *)
(* instant.  One breaker and one SlidingWindowThreshold instance exist;    *)
(* the breaker refers to the instance when a threshold of kind             *)
(* "SlidingWindowThreshold" is installed.                                  *)
(*                                                                         *)
(* Spec runs the handlers one at a time (every public operation holds the  *)
(* lock for its full duration).  SpecWindow does the same with the window  *)
(* in front, keeping the history of what was recorded on it.  SpecConc     *)
(* runs the handlers from several threads with the two locks explicit.     *)
(***************************************************************************)
EXTENDS Integers, Sequences, FiniteSets, TLC

\* ------------------------------------------------------------------ bounds
MaxTime == 3        \* the clock runs from 0 to MaxTime
MaxCount == 3       \* cap of the failures and successes counters
MaxThreshold == 2   \* the count limits installed are 1..MaxThreshold
MaxWindow == 2      \* the largest windowSize
MaxRecorded == 3    \* SpecWindow: failures recorded on the window
MaxFed == 1         \* Spec, SpecConc: failures the window holds at a time
MaxConcTime == 1    \* SpecConc: the clock runs from 0 to MaxConcTime
NumThreads == 2     \* SpecConc: concurrent callers

VARIABLES
    now,                \* the monotonic clock
    state,              \* cb.state
    failures,           \* cb.failures
    successes,          \* cb.successes
    lastStateChange,    \* cb.lastStateChange
    failureThreshold,   \* cb.failureThreshold (and cb.failureSwitch, which wraps it)
    successThreshold,   \* cb.successThreshold (and cb.successSwitch, which wraps it)
    openedTimeout,      \* cb.openedTimeout
    windowSize,         \* sw.windowSize
    maxFailures,        \* sw.maxFailures
    failureTimes,       \* sw.failureTimes
    recorded,           \* history (SpecWindow): every timestamp sw.RecordFailure appended
    last,               \* history: the last call, the state it found, what it returned
    pc,                 \* SpecConc: where each thread is
    call,               \* SpecConc: the operation each thread is in
    cbmu,               \* SpecConc: holder of cb.mu (0: free)
    swmu                \* SpecConc: holders of sw.mu, <<writer, readers>>

cbVars == <<state, failures, successes, lastStateChange,
            failureThreshold, successThreshold, openedTimeout>>
swVars == <<windowSize, maxFailures, failureTimes, recorded>>
concVars == <<pc, call, cbmu, swmu>>
vars == <<now, cbVars, swVars, last, concVars>>

\* ------------------------------------------------------------- core.go:8-12
StateClosed == "closed"
StateOpened == "open"
StateHalfOpen == "half-open"

States == {StateClosed, StateOpened, StateHalfOpen}

\* ------------------------------------------------------------- thresholds
\* A threshold value: its concrete type and its limit.  The limit of a
\* Float64Threshold is counted in halves (threshold 3 is the limit 1.5), which
\* float64 represents exactly.
NewInt64Threshold(n) == [kind |-> "Int64Threshold", threshold |-> n]
NewFloat64Threshold(h) == [kind |-> "Float64Threshold", threshold |-> h]
TheSlidingWindow == [kind |-> "SlidingWindowThreshold", threshold |-> 0]

RatioHalves == {2}

Thresholds ==
    {NewInt64Threshold(n) : n \in 1..MaxThreshold}
        \cup {NewFloat64Threshold(h) : h \in RatioHalves}
        \cup {TheSlidingWindow}

Timeouts == {0, 1}

\* Values of the dynamic types Check can be handed: num/den with its Go type.
Value(type, num, den) == [type |-> type, num |-> num, den |-> den]

\* A slip: the limit itself does not count as reached
Int64CheckStrict(threshold, value) ==
    CASE value.type = "int64" -> value.num > threshold
      [] value.type = "int" -> value.num > threshold
      [] OTHER -> FALSE

\* Int64Threshold.Check
Int64Check(threshold, value) ==
    CASE value.type = "int64" -> value.num >= threshold
      [] value.type = "int" -> value.num >= threshold
      [] OTHER -> FALSE

\* Float64Threshold.Check: v >= limit, with v = num/den and limit = threshold/2
Float64Check(threshold, value) ==
    CASE value.type \in {"float64", "float32", "int", "int64"}
            -> 2 * value.num >= threshold * value.den
      [] OTHER -> FALSE

\* A slip: an entry exactly windowSize old is kept (!Before for After)
ValidFailuresInclusive(times, t, window) ==
    LET windowStart == t - window
    IN  SelectSeq(times, LAMBDA ft : ft >= windowStart)

\* SlidingWindowThreshold.Check, the pruning: the entries After(windowStart)
ValidFailures(times, t, window) ==
    LET windowStart == t - window
    IN  SelectSeq(times, LAMBDA ft : ft > windowStart)

\* A slip: the answer is taken from the entries as they were before pruning
SlidingWindowCheckUnpruned(value, times, t, window, limit) ==
    Len(times) >= limit

\* SlidingWindowThreshold.Check, the answer; the argument is not read
SlidingWindowCheck(value, times, t, window, limit) ==
    Len(ValidFailures(times, t, window)) >= limit

\* A slip: a threshold that is no count and no ratio is compared with the
\* Failures field of the snapshot it is handed
SwitchCheckSnapshot(threshold, value) ==
    CASE threshold.kind = "Int64Threshold" -> Int64Check(threshold.threshold, value)
      [] threshold.kind = "Float64Threshold" -> Float64Check(threshold.threshold, value)
      [] OTHER -> value.den >= maxFailures

\* CustomSwitch.Check: forwards to the threshold it wraps
SwitchCheck(threshold, value) ==
    CASE threshold.kind = "Int64Threshold" -> Int64Check(threshold.threshold, value)
      [] threshold.kind = "Float64Threshold" -> Float64Check(threshold.threshold, value)
      [] OTHER -> SlidingWindowCheck(value, failureTimes, now, windowSize, maxFailures)

\* What the switch's Check leaves in sw.failureTimes
SwitchPrune(threshold) ==
    IF threshold.kind = "SlidingWindowThreshold"
    THEN ValidFailures(failureTimes, now, windowSize)
    ELSE failureTimes

\* CircuitBreaker.calculateCheckValue, with the counters as they are when it runs
calculateCheckValue(counter, threshold, succ, fail) ==
    CASE threshold.kind = "Int64Threshold" -> Value("int64", counter, 1)
      [] threshold.kind = "Float64Threshold" ->
            LET total == succ + fail
            IN  IF total = 0 THEN Value("float64", 0, 1)
                ELSE Value("float64", counter, total)
      [] OTHER -> Value("struct", succ, fail)

\* What a call leaves in the history: its name, the state it found, and what it
\* returned (a boolean, a count or a state token)
Called(op, ret, n, tok) == [op |-> op, pre |-> state, ret |-> ret, n |-> n, tok |-> tok]

\* ------------------------------------------------------------ constructors
NewCircuitBreaker(failureThr, successThr, timeout) ==
    /\ state = StateClosed
    /\ failureThreshold = failureThr
    /\ successThreshold = successThr
    /\ openedTimeout = timeout
    /\ lastStateChange = now
    /\ failures = 0
    /\ successes = 0

NewSlidingWindowThreshold(window, limit) ==
    /\ windowSize = window
    /\ maxFailures = limit
    /\ failureTimes = <<>>
    /\ recorded = <<>>

NoThreads ==
    /\ pc = <<>>
    /\ call = <<>>
    /\ cbmu = 0
    /\ swmu = <<0, {}>>

Init ==
    /\ now = 0
    /\ \E failureThr \in Thresholds, successThr \in Thresholds, timeout \in Timeouts :
            NewCircuitBreaker(failureThr, successThr, timeout)
    /\ NewSlidingWindowThreshold(MaxWindow, MaxFed)
    /\ last = [op |-> "New", pre |-> StateClosed, ret |-> FALSE, n |-> 0, tok |-> ""]
    /\ NoThreads

\* The clock advances
Tick ==
    /\ now < MaxTime
    /\ now' = now + 1
    /\ last' = Called("Tick", FALSE, 0, "")
    /\ UNCHANGED <<cbVars, swVars>>

\* -------------------------------------------------------------- the breaker
\* The lazy Open -> HalfOpen transition of Allow and State
CooldownElapsed == state = StateOpened /\ now - lastStateChange > openedTimeout

\* A slip: the lazy transition leaves lastStateChange at the time of opening
ToHalfOpenUnstamped ==
    /\ state' = StateHalfOpen
    /\ failures' = 0
    /\ successes' = 0
    /\ UNCHANGED lastStateChange

ToHalfOpen ==
    /\ state' = StateHalfOpen
    /\ lastStateChange' = now
    /\ failures' = 0
    /\ successes' = 0

Allow ==
    /\ IF CooldownElapsed
       THEN ToHalfOpen
       ELSE UNCHANGED <<state, lastStateChange, failures, successes>>
    /\ last' = Called("Allow", state' # StateOpened, 0, "")
    /\ UNCHANGED <<now, failureThreshold, successThreshold, openedTimeout, swVars>>

State ==
    /\ IF CooldownElapsed
       THEN ToHalfOpen
       ELSE UNCHANGED <<state, lastStateChange, failures, successes>>
    /\ last' = Called("State", FALSE, 0, state')
    /\ UNCHANGED <<now, failureThreshold, successThreshold, openedTimeout, swVars>>

\* A slip: reconfiguring also resets the counters
UpdateValuesResetting(newFailure, newSuccess, newTimeout) ==
    /\ failureThreshold' = newFailure
    /\ successThreshold' = newSuccess
    /\ openedTimeout' = newTimeout
    /\ failures' = 0
    /\ successes' = 0
    /\ last' = Called("UpdateValues", FALSE, 0, "")
    /\ UNCHANGED <<now, state, lastStateChange, swVars>>

UpdateValues(newFailure, newSuccess, newTimeout) ==
    /\ failureThreshold' = newFailure
    /\ successThreshold' = newSuccess
    /\ openedTimeout' = newTimeout
    /\ last' = Called("UpdateValues", FALSE, 0, "")
    /\ UNCHANGED <<now, state, failures, successes, lastStateChange, swVars>>

\* A slip: a success in Closed leaves the failures counted so far
RecordSuccessClosedKeeping ==
    /\ successes < MaxCount
    /\ successes' = successes + 1
    /\ UNCHANGED <<failures, state, lastStateChange, failureTimes>>

RecordSuccessClosed ==
    /\ successes < MaxCount
    /\ successes' = successes + 1
    /\ failures' = 0
    /\ UNCHANGED <<state, lastStateChange, failureTimes>>

\* A slip: the transition to Closed forgets resetCounters
RecordSuccessHalfOpenKeeping ==
    LET succ == successes + 1
        checkValue == calculateCheckValue(succ, successThreshold, succ, 0)
    IN  /\ successes < MaxCount
        /\ failureTimes' = SwitchPrune(successThreshold)
        /\ successes' = succ
        /\ failures' = 0
        /\ IF SwitchCheck(successThreshold, checkValue)
           THEN /\ state' = StateClosed
                /\ lastStateChange' = now
           ELSE UNCHANGED <<state, lastStateChange>>

RecordSuccessHalfOpen ==
    LET succ == successes + 1
        checkValue == calculateCheckValue(succ, successThreshold, succ, 0)
    IN  /\ successes < MaxCount
        /\ failureTimes' = SwitchPrune(successThreshold)
        /\ IF SwitchCheck(successThreshold, checkValue)
           THEN /\ state' = StateClosed
                /\ lastStateChange' = now
                /\ failures' = 0
                /\ successes' = 0
           ELSE /\ successes' = succ
                /\ failures' = 0
                /\ UNCHANGED <<state, lastStateChange>>

\* A slip: recording while Open performs the lazy transition too
RecordOpenedLazily ==
    /\ IF CooldownElapsed
       THEN ToHalfOpen
       ELSE UNCHANGED <<state, lastStateChange, failures, successes>>
    /\ UNCHANGED failureTimes

RecordOpened ==
    UNCHANGED <<state, failures, successes, lastStateChange, failureTimes>>

RecordSuccess ==
    /\ CASE state = StateClosed -> RecordSuccessClosed
         [] state = StateHalfOpen -> RecordSuccessHalfOpen
         [] OTHER -> RecordOpened
    /\ last' = Called("RecordSuccess", FALSE, 0, "")
    /\ UNCHANGED <<now, failureThreshold, successThreshold, openedTimeout,
                   windowSize, maxFailures, recorded>>

\* A slip: the ratio is taken over the successes counted before the failure
RecordFailureClosedStale ==
    LET fail == failures + 1
        checkValue == calculateCheckValue(fail, failureThreshold, successes, fail)
    IN  /\ failures < MaxCount
        /\ failureTimes' = SwitchPrune(failureThreshold)
        /\ IF SwitchCheck(failureThreshold, checkValue)
           THEN /\ state' = StateOpened
                /\ lastStateChange' = now
                /\ failures' = 0
                /\ successes' = 0
           ELSE /\ failures' = fail
                /\ successes' = 0
                /\ UNCHANGED <<state, lastStateChange>>

\* A slip: the transition to Open forgets resetCounters
RecordFailureClosedKeeping ==
    LET fail == failures + 1
        checkValue == calculateCheckValue(fail, failureThreshold, 0, fail)
    IN  /\ failures < MaxCount
        /\ failureTimes' = SwitchPrune(failureThreshold)
        /\ failures' = fail
        /\ successes' = 0
        /\ IF SwitchCheck(failureThreshold, checkValue)
           THEN /\ state' = StateOpened
                /\ lastStateChange' = now
           ELSE UNCHANGED <<state, lastStateChange>>

\* A slip: a failure in Closed leaves the successes counted so far
RecordFailureClosedAccumulating ==
    LET fail == failures + 1
        checkValue == calculateCheckValue(fail, failureThreshold, successes, fail)
    IN  /\ failures < MaxCount
        /\ failureTimes' = SwitchPrune(failureThreshold)
        /\ IF SwitchCheck(failureThreshold, checkValue)
           THEN /\ state' = StateOpened
                /\ lastStateChange' = now
                /\ failures' = 0
                /\ successes' = 0
           ELSE /\ failures' = fail
                /\ UNCHANGED <<successes, state, lastStateChange>>

RecordFailureClosed ==
    LET fail == failures + 1
        checkValue == calculateCheckValue(fail, failureThreshold, 0, fail)
    IN  /\ failures < MaxCount
        /\ failureTimes' = SwitchPrune(failureThreshold)
        /\ IF SwitchCheck(failureThreshold, checkValue)
           THEN /\ state' = StateOpened
                /\ lastStateChange' = now
                /\ failures' = 0
                /\ successes' = 0
           ELSE /\ failures' = fail
                /\ successes' = 0
                /\ UNCHANGED <<state, lastStateChange>>

\* A slip: a failure of the probe is counted against the failure threshold
RecordFailureHalfOpenCounting ==
    LET fail == failures + 1
        checkValue == calculateCheckValue(fail, failureThreshold, 0, fail)
    IN  /\ failureTimes' = SwitchPrune(failureThreshold)
        /\ IF SwitchCheck(failureThreshold, checkValue)
           THEN /\ state' = StateOpened
                /\ lastStateChange' = now
                /\ failures' = 0
                /\ successes' = 0
           ELSE /\ failures' = fail
                /\ successes' = 0
                /\ UNCHANGED <<state, lastStateChange>>

RecordFailureHalfOpen ==
    /\ state' = StateOpened
    /\ lastStateChange' = now
    /\ failures' = 0
    /\ successes' = 0
    /\ UNCHANGED failureTimes

RecordFailure ==
    /\ CASE state = StateClosed -> RecordFailureClosed
         [] state = StateHalfOpen -> RecordFailureHalfOpen
         [] OTHER -> RecordOpened
    /\ last' = Called("RecordFailure", FALSE, 0, "")
    /\ UNCHANGED <<now, failureThreshold, successThreshold, openedTimeout,
                   windowSize, maxFailures, recorded>>

\* ------------------------------------------------- the sliding-window threshold
SampleValues == {Value("nil", 0, 1), Value("int64", MaxCount, 1), Value("struct", 0, MaxCount)}

SwCheck(value) ==
    /\ failureTimes' = ValidFailures(failureTimes, now, windowSize)
    /\ last' = Called("SlidingWindowThreshold.Check",
                      SlidingWindowCheck(value, failureTimes, now, windowSize, maxFailures),
                      0, "")
    /\ UNCHANGED <<now, cbVars, windowSize, maxFailures, recorded>>

SwRecordFailure ==
    /\ failureTimes' = Append(failureTimes, now)
    /\ last' = Called("SlidingWindowThreshold.RecordFailure", FALSE, 0, "")
    /\ UNCHANGED <<now, cbVars, windowSize, maxFailures>>

\* A slip: the count is taken after pruning, as Check does
SwGetCurrentFailuresPruning ==
    /\ failureTimes' = ValidFailures(failureTimes, now, windowSize)
    /\ last' = Called("SlidingWindowThreshold.GetCurrentFailures", FALSE,
                      Len(ValidFailures(failureTimes, now, windowSize)), "")
    /\ UNCHANGED <<now, cbVars, windowSize, maxFailures, recorded>>

SwGetCurrentFailures ==
    /\ last' = Called("SlidingWindowThreshold.GetCurrentFailures", FALSE,
                      Len(failureTimes), "")
    /\ UNCHANGED <<now, cbVars, swVars>>

\* ------------------------------------------------------------ specification
\* The breaker, every kind of threshold installed and swapped; the window
\* holds at most MaxFed failures.
Next ==
    \/ Tick /\ UNCHANGED concVars
    \/ Allow /\ UNCHANGED concVars
    \/ State /\ UNCHANGED concVars
    \/ RecordSuccess /\ UNCHANGED concVars
    \/ RecordFailure /\ UNCHANGED concVars
    \/ \E nf \in Thresholds, ns \in Thresholds, nt \in Timeouts :
            UpdateValues(nf, ns, nt) /\ UNCHANGED concVars
    \/ Len(failureTimes) < MaxFed /\ SwRecordFailure /\ UNCHANGED <<recorded, concVars>>

Spec == Init /\ [][Next]_vars

\* The breaker with a Float64Threshold as its failure threshold, for ratio
\* limits 0, 0.5, 1 and 1.5 (in halves).
RatioLimits == {0, 1, 2, 3}

RatioThresholds == {NewFloat64Threshold(h) : h \in RatioLimits}

InitRatio ==
    /\ now = 0
    /\ \E failureThr \in RatioThresholds, timeout \in Timeouts :
            NewCircuitBreaker(failureThr, NewInt64Threshold(MaxThreshold), timeout)
    /\ NewSlidingWindowThreshold(MaxWindow, MaxFed)
    /\ last = [op |-> "New", pre |-> StateClosed, ret |-> FALSE, n |-> 0, tok |-> ""]
    /\ NoThreads

NextRatio ==
    \/ Tick /\ UNCHANGED concVars
    \/ Allow /\ UNCHANGED concVars
    \/ State /\ UNCHANGED concVars
    \/ RecordSuccess /\ UNCHANGED concVars
    \/ RecordFailure /\ UNCHANGED concVars
    \/ \E nf \in RatioThresholds, nt \in Timeouts :
            UpdateValues(nf, successThreshold, nt) /\ UNCHANGED concVars

SpecRatio == InitRatio /\ [][NextRatio]_vars

\* The sliding window, every window size and limit, fed at most MaxRecorded
\* failures, alone and as the failure threshold of a breaker.
InitWindow ==
    /\ now = 0
    /\ NewCircuitBreaker(TheSlidingWindow, NewInt64Threshold(1), 0)
    /\ \E window \in 0..MaxWindow, limit \in 0..MaxThreshold :
            NewSlidingWindowThreshold(window, limit)
    /\ last = [op |-> "New", pre |-> StateClosed, ret |-> FALSE, n |-> 0, tok |-> ""]
    /\ NoThreads

NextWindow ==
    \/ Tick /\ UNCHANGED concVars
    \/ Allow /\ UNCHANGED concVars
    \/ RecordSuccess /\ UNCHANGED concVars
    \/ RecordFailure /\ UNCHANGED concVars
    \/ \E v \in SampleValues : SwCheck(v) /\ UNCHANGED concVars
    \/ /\ Len(recorded) < MaxRecorded
       /\ SwRecordFailure
       /\ recorded' = Append(recorded, now)
       /\ UNCHANGED concVars
    \/ SwGetCurrentFailures /\ UNCHANGED concVars

SpecWindow == InitWindow /\ [][NextWindow]_vars

\* --------------------------------------------------------------- the threads
\* Every call runs Lock, its body, Unlock (deferred).  A thread is idle, or
\* holds the lock of its call with the body to run ("body"), or is inside a
\* breaker body blocked in the sw.mu.Lock() of Check ("wait"); the body and
\* the deferred Unlock are one step.
Threads == 1..NumThreads

CbOps == {"Allow", "State", "RecordSuccess", "RecordFailure", "UpdateValues"}
SwWriteOps == {"SlidingWindowThreshold.Check", "SlidingWindowThreshold.RecordFailure"}
SwReadOps == {"SlidingWindowThreshold.GetCurrentFailures"}

\* What a breaker would read of a state string written without the lock
Torn == "torn"

\* The thresholds and timeouts the threads install (TestConcurrentAccess swaps
\* two configurations)
ConcConfigs ==
    {<<TheSlidingWindow, NewInt64Threshold(1), 0>>,
     <<NewInt64Threshold(MaxThreshold), NewInt64Threshold(MaxThreshold), 1>>}

InitConc ==
    /\ now = 0
    /\ \E c \in ConcConfigs : NewCircuitBreaker(c[1], c[2], c[3])
    /\ NewSlidingWindowThreshold(1, 1)
    /\ last = [op |-> "New", pre |-> StateClosed, ret |-> FALSE, n |-> 0, tok |-> ""]
    /\ pc = [t \in Threads |-> "idle"]
    /\ call = [t \in Threads |-> "none"]
    /\ cbmu = 0
    /\ swmu = <<0, {}>>

\* The counter the call would increment is below the cap of the model
Countable(op) ==
    /\ (op = "RecordSuccess" /\ state # StateOpened) => successes < MaxCount
    /\ (op = "RecordFailure" /\ state = StateClosed) => failures < MaxCount

\* A slip: the lock is taken without excluding a holder (RLock for Lock)
CbLockShared(t, op) ==
    /\ pc[t] = "idle"
    /\ Countable(op)
    /\ cbmu' = t
    /\ pc' = [pc EXCEPT ![t] = "body"]
    /\ call' = [call EXCEPT ![t] = op]
    /\ UNCHANGED <<now, cbVars, swVars, last, swmu>>

\* The thread calls a breaker operation: cb.mu.Lock()
CbLock(t, op) ==
    /\ pc[t] = "idle"
    /\ Countable(op)
    /\ cbmu = 0
    /\ cbmu' = t
    /\ pc' = [pc EXCEPT ![t] = "body"]
    /\ call' = [call EXCEPT ![t] = op]
    /\ UNCHANGED <<now, cbVars, swVars, last, swmu>>

\* Another thread is inside a breaker operation too: a data race on the
\* breaker's fields, whose string may be read torn
Raced(t) == \E u \in Threads \ {t} : pc[u] # "idle" /\ call[u] \in CbOps

\* The switch of the operation calls the window's Check, which takes sw.mu
NeedsWindow(op) ==
    \/ op = "RecordFailure" /\ state = StateClosed
            /\ failureThreshold.kind = "SlidingWindowThreshold"
    \/ op = "RecordSuccess" /\ state = StateHalfOpen
            /\ successThreshold.kind = "SlidingWindowThreshold"

SwFree == swmu[1] = 0 /\ swmu[2] = {}

Returned(t) ==
    /\ pc' = [pc EXCEPT ![t] = "idle"]
    /\ call' = [call EXCEPT ![t] = "none"]

\* The Check called by the breaker finds sw.mu taken and blocks in Lock
CheckWait(t) ==
    /\ pc[t] = "body"
    /\ call[t] \in CbOps
    /\ NeedsWindow(call[t])
    /\ ~SwFree
    /\ pc' = [pc EXCEPT ![t] = "wait"]
    /\ UNCHANGED <<now, cbVars, swVars, last, call, cbmu, swmu>>

\* A Lock of sw.mu is blocked: RLock admits no new reader (sync.RWMutex)
WriterWaiting == \E u \in Threads : pc[u] = "wait"

\* The body of a breaker operation and its deferred cb.mu.Unlock()
CbBody(t) ==
    /\ pc[t] \in {"body", "wait"}
    /\ call[t] \in CbOps
    /\ NeedsWindow(call[t]) => SwFree
    /\ IF Raced(t)
       THEN /\ state' \in States \cup {Torn}
            /\ last' = Called(call[t], FALSE, 0, "")
            /\ UNCHANGED <<now, failures, successes, lastStateChange, failureThreshold,
                           successThreshold, openedTimeout, swVars>>
       ELSE CASE call[t] = "Allow" -> Allow
              [] call[t] = "State" -> State
              [] call[t] = "RecordSuccess" -> RecordSuccess
              [] call[t] = "RecordFailure" -> RecordFailure
              [] OTHER -> \E c \in ConcConfigs : UpdateValues(c[1], c[2], c[3])
    /\ cbmu' = 0
    /\ Returned(t)
    /\ UNCHANGED swmu

\* The thread calls Check or RecordFailure of the window: sw.mu.Lock()
SwLock(t, op) ==
    /\ pc[t] = "idle"
    /\ op = "SlidingWindowThreshold.RecordFailure" => Len(failureTimes) < MaxFed
    /\ SwFree
    /\ swmu' = <<t, {}>>
    /\ pc' = [pc EXCEPT ![t] = "body"]
    /\ call' = [call EXCEPT ![t] = op]
    /\ UNCHANGED <<now, cbVars, swVars, last, cbmu>>

\* The thread calls GetCurrentFailures of the window: sw.mu.RLock()
SwRLock(t, op) ==
    /\ pc[t] = "idle"
    /\ swmu[1] = 0
    /\ ~WriterWaiting
    /\ swmu' = <<0, swmu[2] \cup {t}>>
    /\ pc' = [pc EXCEPT ![t] = "body"]
    /\ call' = [call EXCEPT ![t] = op]
    /\ UNCHANGED <<now, cbVars, swVars, last, cbmu>>

\* A slip: the window operation returns without releasing sw.mu
SwBodyLeaking(t) ==
    /\ pc[t] = "body"
    /\ call[t] \in SwWriteOps \cup SwReadOps
    /\ CASE call[t] = "SlidingWindowThreshold.Check" -> \E v \in SampleValues : SwCheck(v)
         [] call[t] = "SlidingWindowThreshold.RecordFailure" ->
                SwRecordFailure /\ UNCHANGED recorded
         [] OTHER -> SwGetCurrentFailures
    /\ Returned(t)
    /\ UNCHANGED <<cbmu, swmu>>

\* The body of a window operation and its deferred Unlock / RUnlock
SwBody(t) ==
    /\ pc[t] = "body"
    /\ call[t] \in SwWriteOps \cup SwReadOps
    /\ CASE call[t] = "SlidingWindowThreshold.Check" -> \E v \in SampleValues : SwCheck(v)
         [] call[t] = "SlidingWindowThreshold.RecordFailure" ->
                SwRecordFailure /\ UNCHANGED recorded
         [] OTHER -> SwGetCurrentFailures
    /\ swmu' = IF call[t] \in SwReadOps THEN <<0, swmu[2] \ {t}>> ELSE <<0, {}>>
    /\ Returned(t)
    /\ UNCHANGED cbmu

TickConc ==
    /\ now < MaxConcTime
    /\ Tick
    /\ UNCHANGED concVars

NextConc ==
    \/ TickConc
    \/ \E t \in Threads, op \in CbOps : CbLock(t, op)
    \/ \E t \in Threads : CheckWait(t)
    \/ \E t \in Threads : CbBody(t)
    \/ \E t \in Threads, op \in SwWriteOps : SwLock(t, op)
    \/ \E t \in Threads, op \in SwReadOps : SwRLock(t, op)
    \/ \E t \in Threads : SwBody(t)

SpecConc == InitConc /\ [][NextConc]_vars

\* The threads under a fair scheduler and fair mutexes: a thread that holds
\* the lock of its call runs its body; a breaker body that finds sw.mu taken
\* blocks in Lock, and gets the lock although other threads keep taking and
\* releasing it.
SpecConcFair ==
    /\ SpecConc
    /\ \A t \in Threads :
            /\ WF_vars(CheckWait(t))
            /\ SF_vars(CbBody(t))
            /\ WF_vars(SwBody(t))

\* ------------------------------------------------------------------ claims
\* A step of the named call
Did(op) == last'.op = op

\* C1: with an Int64Threshold N as the failure threshold, a RecordFailure in
\* Closed opens the breaker exactly when the incremented failures counter is
\* >= N; otherwise the breaker stays Closed with the counter incremented.
C1_OpensExactlyAtCount ==
    [][(Did("RecordFailure") /\ state = StateClosed
            /\ failureThreshold.kind = "Int64Threshold")
        => IF failures + 1 >= failureThreshold.threshold
           THEN state' = StateOpened
           ELSE state' = StateClosed /\ failures' = failures + 1]_vars

C1_Witness ==
    /\ last.op = "RecordFailure"
    /\ last.pre = StateClosed
    /\ state = StateOpened
    /\ failureThreshold = NewInt64Threshold(2)

\* C2 (as claimed): an Allow while Open returns false and stays Open before
\* openedTimeout has elapsed since lastStateChange, and returns true and moves
\* to HalfOpen at or after it.
C2_AllowAtOrAfterTimeout ==
    [][(Did("Allow") /\ state = StateOpened)
        => IF now - lastStateChange >= openedTimeout
           THEN last'.ret /\ state' = StateHalfOpen
           ELSE ~last'.ret /\ state' = StateOpened]_vars

\* C3: a RecordFailure in HalfOpen reopens the breaker whatever the counters
\* and thresholds are, resets both counters, stamps lastStateChange and
\* consults no threshold (the window is not pruned).
C3_ProbeFailureReopens ==
    [][(Did("RecordFailure") /\ state = StateHalfOpen)
        => /\ state' = StateOpened
           /\ failures' = 0
           /\ successes' = 0
           /\ lastStateChange' = now'
           /\ failureTimes' = failureTimes]_vars

C3_Witness ==
    /\ last.op = "RecordFailure"
    /\ last.pre = StateHalfOpen
    /\ state = StateOpened
    /\ failureThreshold = NewInt64Threshold(2)
    /\ lastStateChange = now

\* C4: with an Int64Threshold M as the success threshold, a RecordSuccess in
\* HalfOpen closes the breaker exactly when the incremented successes counter
\* is >= M, and then both counters are 0; otherwise it stays HalfOpen.
C4_ClosesExactlyAtCount ==
    [][(Did("RecordSuccess") /\ state = StateHalfOpen
            /\ successThreshold.kind = "Int64Threshold")
        => IF successes + 1 >= successThreshold.threshold
           THEN state' = StateClosed /\ failures' = 0 /\ successes' = 0
           ELSE state' = StateHalfOpen /\ successes' = successes + 1]_vars

C4_Witness ==
    /\ last.op = "RecordSuccess"
    /\ last.pre = StateHalfOpen
    /\ state = StateClosed
    /\ successThreshold = NewInt64Threshold(2)
    /\ failures = 0
    /\ successes = 0

\* C5: RecordSuccess and RecordFailure while Open change nothing of the
\* breaker nor of the window, also once the cooldown has elapsed.
C5_RecordWhileOpenIsNoOp ==
    [][((Did("RecordSuccess") \/ Did("RecordFailure")) /\ state = StateOpened)
        => UNCHANGED <<cbVars, swVars>>]_vars

C5_Witness ==
    /\ last.op = "RecordFailure"
    /\ last.pre = StateOpened
    /\ state = StateOpened
    /\ now - lastStateChange > openedTimeout

\* C6: UpdateValues leaves state, failures, successes and lastStateChange as
\* they are, also when a counter already meets the new threshold, and
\* evaluates no threshold (the window is not pruned).
C6_UpdateValuesKeepsState ==
    [][Did("UpdateValues")
        => UNCHANGED <<state, failures, successes, lastStateChange, failureTimes>>]_vars

C6_Witness ==
    /\ last.op = "UpdateValues"
    /\ state = StateClosed
    /\ failureThreshold.kind = "Int64Threshold"
    /\ failures >= failureThreshold.threshold

\* C7: under every interleaving of concurrent Allow, RecordSuccess,
\* RecordFailure, State and UpdateValues calls (and of calls on the window),
\* the state is Closed, Open or HalfOpen and no counter is negative.
C7_StateAndCountersValid ==
    /\ state \in States
    /\ failures >= 0
    /\ successes >= 0

C7_Witness ==
    /\ last.op = "UpdateValues"
    /\ state = StateHalfOpen
    /\ \E t \in Threads : pc[t] = "body" /\ call[t] = "RecordFailure"
    /\ \E t \in Threads : pc[t] = "body" /\ call[t] \in SwWriteOps

\* The failures recorded on the window whose timestamp is newer than
\* t - windowSize
InWindow(t) == {i \in 1..Len(recorded) : recorded[i] > t - windowSize}

\* A step in which SlidingWindowThreshold.Check ran, called directly or by
\* the breaker through its switch
CheckRan ==
    \/ Did("SlidingWindowThreshold.Check")
    \/ /\ Did("RecordFailure")
       /\ state = StateClosed
       /\ failureThreshold.kind = "SlidingWindowThreshold"
    \/ /\ Did("RecordSuccess")
       /\ state = StateHalfOpen
       /\ successThreshold.kind = "SlidingWindowThreshold"

\* C8: Check returns true iff the number of failures ever recorded on the
\* window with a timestamp newer than now - windowSize is >= maxFailures,
\* whatever its argument and whenever the window was last pruned.
C8_CheckCountsTheTrailingWindow ==
    last.op = "SlidingWindowThreshold.Check"
        => (last.ret <=> Cardinality(InWindow(now)) >= maxFailures)

C8_Witness ==
    /\ last.op = "SlidingWindowThreshold.Check"
    /\ ~last.ret
    /\ maxFailures = 2
    /\ Len(recorded) = 3
    /\ Cardinality(InWindow(now)) = 1

\* C9: a Check leaves in failureTimes exactly the entries it found that are
\* newer than now - windowSize, in their order; the entries dropped are never
\* stored again (failureTimes stays the newest part of what was recorded,
\* and the number of entries dropped never decreases).
C9_CheckKeepsExactlyTheWindow ==
    [][/\ CheckRan =>
            LET k == Len(failureTimes) - Len(failureTimes')
            IN  /\ k >= 0
                /\ failureTimes' = SubSeq(failureTimes, k + 1, Len(failureTimes))
                /\ \A i \in 1..k : failureTimes[i] <= now - windowSize
                /\ \A i \in 1..Len(failureTimes') : failureTimes'[i] > now - windowSize
       /\ Len(recorded') - Len(failureTimes') >= Len(recorded) - Len(failureTimes)
       /\ failureTimes' = SubSeq(recorded', Len(recorded') - Len(failureTimes') + 1,
                                 Len(recorded'))]_vars

C9_Witness ==
    /\ last.op = "SlidingWindowThreshold.Check"
    /\ Len(recorded) = 3
    /\ Len(failureTimes) = 1

\* C10: with the sliding window as the failure threshold, a RecordFailure of
\* the breaker in Closed opens it iff the window holds >= maxFailures failures
\* newer than now - windowSize, whatever the breaker's counters are, and it
\* appends nothing to the window.
C10_WindowAloneDecides ==
    [][(Did("RecordFailure") /\ state = StateClosed
            /\ failureThreshold.kind = "SlidingWindowThreshold")
        => /\ state' = StateOpened <=> Cardinality(InWindow(now)) >= maxFailures
           /\ state' \in {StateOpened, StateClosed}
           /\ Len(failureTimes') <= Len(failureTimes)
           /\ recorded' = recorded]_vars

C10_Witness ==
    /\ last.op = "RecordFailure"
    /\ last.pre = StateClosed
    /\ state = StateOpened
    /\ failureThreshold.kind = "SlidingWindowThreshold"
    /\ maxFailures = 2
    /\ Len(recorded) = 3

\* C11 (as claimed): while Closed or HalfOpen, exactly one of failures and
\* successes is non-zero.
C11_ExactlyOneCounter ==
    state \in {StateClosed, StateHalfOpen}
        => (failures # 0 /\ successes = 0) \/ (failures = 0 /\ successes # 0)

\* C11 (amended): while Closed or HalfOpen, at most one of failures and
\* successes is non-zero; both are 0 after construction and after a transition.
C11_AtMostOneCounter ==
    state \in {StateClosed, StateHalfOpen} => failures = 0 \/ successes = 0

C11_Witness ==
    /\ last.op = "RecordFailure"
    /\ state = StateClosed
    /\ failures = 2
    /\ successes = 0
    /\ failureThreshold = NewFloat64Threshold(2) \/ failureThreshold = TheSlidingWindow

\* C12 (as claimed): with openedTimeout = 0 an Allow or State that finds the
\* breaker Open moves it to HalfOpen, at whatever instant it runs.
C12_ZeroTimeoutImmediate ==
    [][((Did("Allow") \/ Did("State")) /\ state = StateOpened /\ openedTimeout = 0)
        => state' = StateHalfOpen]_vars

\* C13: the breaker leaves Open only in an Allow or a State; time passing,
\* RecordSuccess, RecordFailure and UpdateValues leave it Open.
C13_OnlyAllowOrStateLeaveOpen ==
    [][(state = StateOpened /\ state' # StateOpened)
        => Did("Allow") \/ Did("State")]_vars

C13_Witness ==
    /\ last.op = "UpdateValues"
    /\ state = StateOpened
    /\ openedTimeout = 0
    /\ now - lastStateChange = MaxTime

\* A step in which a thread runs the body of the named call and returns
Ran(op) == \E t \in Threads : pc[t] # "idle" /\ call[t] = op /\ pc'[t] = "idle"

\* C14: among threads calling Allow and State after the cooldown, the call
\* that finds the breaker Open performs the transition (HalfOpen,
\* lastStateChange stamped, counters reset); every call that finds it HalfOpen
\* reports HalfOpen and changes no field of the breaker.
C14_OneCallerPerformsTheTransition ==
    [][(Ran("Allow") \/ Ran("State"))
        => /\ CooldownElapsed
                => /\ state' = StateHalfOpen
                   /\ lastStateChange' = now
                   /\ failures' = 0
                   /\ successes' = 0
           /\ state = StateHalfOpen
                => /\ UNCHANGED cbVars
                   /\ Ran("Allow") => last'.ret
                   /\ Ran("State") => last'.tok = StateHalfOpen]_vars

C14_Witness ==
    /\ last.op = "State"
    /\ last.pre = StateHalfOpen
    /\ last.tok = StateHalfOpen
    /\ lastStateChange = now
    /\ now > 0
    /\ \E t \in Threads : pc[t] = "body" /\ call[t] = "Allow"

\* C15: a RecordSuccess in Closed keeps the state and lastStateChange,
\* increments successes and sets failures to 0; so with an Int64Threshold
\* N >= 2 a RecordFailure that follows a success (successes > 0) counts 1 and
\* leaves the breaker Closed: only N failures in a row open it.
C15_SuccessRestartsTheCount ==
    [][/\ (Did("RecordSuccess") /\ state = StateClosed)
            => /\ state' = StateClosed
               /\ lastStateChange' = lastStateChange
               /\ successes' = successes + 1
               /\ failures' = 0
       /\ (Did("RecordFailure") /\ state = StateClosed /\ successes > 0
                /\ failureThreshold.kind = "Int64Threshold"
                /\ failureThreshold.threshold >= 2)
            => /\ state' = StateClosed
               /\ failures' = 1]_vars

C15_Witness ==
    /\ last.op = "RecordSuccess"
    /\ last.pre = StateClosed
    /\ state = StateClosed
    /\ successes = 2
    /\ failures = 0
    /\ failureThreshold = NewInt64Threshold(2)
    /\ lastStateChange < now

\* C16: GetCurrentFailures returns the number of stored timestamps and
\* leaves failureTimes as it is (no pruning); called right after a Check it
\* returns the number of failures recorded within the window.
C16_GetCurrentFailuresIsTheStoredCount ==
    [][Did("SlidingWindowThreshold.GetCurrentFailures")
        => /\ last'.n = Len(failureTimes)
           /\ failureTimes' = failureTimes
           /\ (last.op = "SlidingWindowThreshold.Check"
                    \/ (last.op = "RecordFailure" /\ last.pre = StateClosed))
                => last'.n = Cardinality(InWindow(now))]_vars

\* The stored count exceeds the in-window count: timestamps have expired and
\* no Check has pruned them yet
C16_Witness ==
    /\ last.op = "SlidingWindowThreshold.GetCurrentFailures"
    /\ last.n = 2
    /\ Cardinality(InWindow(now)) = 0
    /\ windowSize > 0

\* C17: under fair scheduling and fair lock acquisition every call that has
\* entered an operation of the breaker or of the window returns, including a
\* breaker RecordFailure or RecordSuccess that takes sw.mu for Check while
\* holding cb.mu.
C17_EveryCallReturns ==
    \A t \in Threads : (pc[t] # "idle") ~> (pc[t] = "idle")

\* A breaker call holding cb.mu is blocked on sw.mu, which another thread holds
C17_Witness ==
    \E t \in Threads :
        /\ pc[t] = "wait"
        /\ call[t] = "RecordFailure"
        /\ NeedsWindow(call[t])
        /\ cbmu = t
        /\ swmu[1] \in Threads \ {t}

\* The transitions of the breaker
Transitions ==
    {<<StateClosed, StateOpened>>, <<StateOpened, StateHalfOpen>>,
     <<StateHalfOpen, StateOpened>>, <<StateHalfOpen, StateClosed>>}

\* C18: the breaker starts Closed; every change of state is one of
\* Closed->Open, Open->HalfOpen, HalfOpen->Open, HalfOpen->Closed, resets both
\* counters and stamps lastStateChange with the clock; lastStateChange
\* changes in no other step.
C18_OnlyTheFourTransitions ==
    /\ state = StateClosed
    /\ [][/\ state' # state
                 => /\ <<state, state'>> \in Transitions
                    /\ failures' = 0
                    /\ successes' = 0
                    /\ lastStateChange' = now'
          /\ lastStateChange' # lastStateChange => state' # state]_vars

C18_Witness ==
    /\ last.op = "State"
    /\ last.pre = StateOpened
    /\ last.tok = StateHalfOpen
    /\ state = StateHalfOpen
    /\ lastStateChange = now
    /\ openedTimeout = 1

\* C19: with a Float64Threshold as the failure threshold a RecordFailure in
\* Closed checks the ratio 1 whatever successes came before: it opens the
\* breaker when the limit is <= 1 and leaves it Closed, the failure counted,
\* when the limit is > 1.
C19_RatioOfAFailureIsOne ==
    [][(Did("RecordFailure") /\ state = StateClosed
            /\ failureThreshold.kind = "Float64Threshold")
        => IF failureThreshold.threshold <= 2
           THEN state' = StateOpened
           ELSE state' = StateClosed /\ failures' = failures + 1]_vars

C19_Witness ==
    /\ last.op = "RecordFailure"
    /\ last.pre = StateClosed
    /\ state = StateClosed
    /\ failures = MaxCount
    /\ failureThreshold = NewFloat64Threshold(3)

\* C20: while the breaker is Open both counters are 0; while it is HalfOpen
\* failures is 0.
C20_CountersWhileOpenAndHalfOpen ==
    /\ state = StateOpened => failures = 0 /\ successes = 0
    /\ state = StateHalfOpen => failures = 0

C20_Witness ==
    /\ last.op = "RecordSuccess"
    /\ last.pre = StateHalfOpen
    /\ state = StateHalfOpen
    /\ successes = 1
    /\ failures = 0

====
